---- MODULE Spec2Model ----
(***************************************************************************)
(* A model of controllers/audioAnalysisController.js: the two upload       *)
(* handlers analyzeAudio and analyzeAudioWithJSON (line-for-line the same  *)
(* code), the AI call wrapper analyzeAudioWithGemini with its reply        *)
(* parsing and fallback, the normalization pass createSafeAnalysis, and    *)
(* healthCheck.                                                            *)
(*                                                                         *)
(* Node runs a handler without interruption between two awaits, so one     *)
(* action is: an awaited operation (a storage operation, the AI call)      *)
(* takes effect, and the handler's continuation runs up to its next await. *)
(***************************************************************************)
EXTENDS Integers, Sequences, FiniteSets, TLC

VARIABLES req, db, health, norm

vars == <<req, db, health, norm>>

(***************************************************************************)
(* Bounds.                                                                 *)
(***************************************************************************)
\* Number of upload requests, named in order of arrival.
MaxRequests == 2

Requests == 1..MaxRequests

Emails == {"a@b.com", "c@d.com"}

\* Date.now() - startTime, in milliseconds (line 358).  The handlers only
\* store and return it.
ElapsedTimes == {1200}

(***************************************************************************)
(* JavaScript values.  Every value is a record tagged by its type, so that *)
(* values of different types can be compared.                              *)
(***************************************************************************)
Undefined == [t |-> "undefined"]

JNull == [t |-> "null"]

JNum(n) == [t |-> "num", n |-> n]

JStr(s) == [t |-> "str", s |-> s]

JArr(a) == [t |-> "arr", a |-> a]

\* o is a function from the object's own keys to their values.
JObj(o) == [t |-> "obj", o |-> o]

\* The outcome of a call: a returned value or a thrown error.
Return(v) == [thrown |-> FALSE, v |-> v]

Throw(e) == [thrown |-> TRUE, v |-> JStr(e)]

\* ToBoolean: undefined, null, 0 and "" are falsy; objects and arrays (also
\* empty ones) and every other number or string are truthy.
Truthy(v) ==
    CASE v.t = "undefined" -> FALSE
      [] v.t = "null" -> FALSE
      [] v.t = "num" -> v.n # 0
      [] v.t = "str" -> v.s # ""
      [] OTHER -> TRUE

Nullish(v) == v.t \in {"undefined", "null"}

\* v.k for a v that is neither null nor undefined: the own property of an
\* object, undefined on a missing key and on a number, string or array.
Get(v, k) ==
    IF v.t = "obj" /\ k \in DOMAIN v.o THEN v.o[k] ELSE Undefined

\* v?.k
OptGet(v, k) == IF Nullish(v) THEN Undefined ELSE Get(v, k)

\* a || d
Or(a, d) == IF Truthy(a) THEN a ELSE d

(***************************************************************************)
(* createSafeAnalysis (lines 35-61).                                       *)
(***************************************************************************)
DefaultTranscription == JStr("Audio processed successfully")

DefaultSpendingHabits ==
    JObj([cafeBudget |-> JStr("Unknown"),
          percentage |-> JNum(0),
          reason |-> JStr("No data available")])

DefaultGoaExperience ==
    JObj([score |-> JNum(0),
          level |-> JStr("Unknown"),
          reason |-> JStr("No data available")])

DefaultInsights ==
    JObj([whyUseful |-> JStr("Analysis completed"),
          benefits |-> JArr(<<>>),
          opportunities |-> JArr(<<>>),
          recommendations |-> JArr(<<>>)])

\* A plausible slip: the insights entry picks a sub-field of the reply's
\* insights instead of the object.
createSafeAnalysisFlat(analysis) ==
    IF Nullish(analysis)
    THEN Throw("TypeError")
    ELSE LET a == Get(analysis, "analysis")
         IN Return(JObj([
              transcription |-> Or(Get(analysis, "transcription"), DefaultTranscription),
              analysis |-> JObj([
                overallScore |-> Or(OptGet(a, "overallScore"), JNum(0)),
                confidenceLevel |-> Or(OptGet(a, "confidenceLevel"), JStr("Unknown")),
                travelPersonality |-> Or(OptGet(a, "travelPersonality"), JArr(<<>>)),
                preferences |-> Or(OptGet(a, "preferences"), JArr(<<>>)),
                spendingHabits |-> Or(OptGet(a, "spendingHabits"), DefaultSpendingHabits),
                goaExperience |-> Or(OptGet(a, "goaExperience"), DefaultGoaExperience)]),
              insights |-> Or(OptGet(Get(analysis, "insights"), "whyUseful"),
                              DefaultInsights)]))

\* Reading analysis.transcription of null throws a TypeError; of any other
\* value (JSON.parse never returns undefined) the nine entries are read with
\* ?. and || and a fresh object is returned.
createSafeAnalysis(analysis) ==
    IF Nullish(analysis)
    THEN Throw("TypeError")
    ELSE LET a == Get(analysis, "analysis")
         IN Return(JObj([
              transcription |-> Or(Get(analysis, "transcription"), DefaultTranscription),
              analysis |-> JObj([
                overallScore |-> Or(OptGet(a, "overallScore"), JNum(0)),
                confidenceLevel |-> Or(OptGet(a, "confidenceLevel"), JStr("Unknown")),
                travelPersonality |-> Or(OptGet(a, "travelPersonality"), JArr(<<>>)),
                preferences |-> Or(OptGet(a, "preferences"), JArr(<<>>)),
                spendingHabits |-> Or(OptGet(a, "spendingHabits"), DefaultSpendingHabits),
                goaExperience |-> Or(OptGet(a, "goaExperience"), DefaultGoaExperience)]),
              insights |-> Or(Get(analysis, "insights"), DefaultInsights)]))

(***************************************************************************)
(* The fallback analysis of analyzeAudioWithGemini (lines 239-315).        *)
(***************************************************************************)
Trait(trait, percentage, reason) ==
    JObj([trait |-> JStr(trait), percentage |-> JNum(percentage),
          reason |-> JStr(reason)])

Preference(preference, choice, percentage, reason) ==
    [preference |-> JStr(preference), choice |-> JStr(choice),
     percentage |-> JNum(percentage), reason |-> JStr(reason)]

Recommendation(category, items) ==
    JObj([category |-> JStr(category), items |-> JArr(items)])

Fallback ==
    JObj([
      transcription |-> JStr("Audio processed successfully by Gemini 1.5 Pro"),
      analysis |-> JObj([
        overallScore |-> JNum(85),
        confidenceLevel |-> JStr("High"),
        travelPersonality |-> JArr(<<
          Trait("Adventure Seeker", 88,
                "Demonstrated clear preference for exciting experiences and new adventures"),
          Trait("Social Butterfly", 82,
                "Showed strong preference for party atmosphere and social interactions")>>),
        preferences |-> JArr(<<
          JObj(Preference("Beach vs Mountains", "Beach", 80,
                "Expressed strong preference for beach activities and coastal experiences")),
          JObj(Preference("Party vs Relaxing", "Party", 75,
                "Mentioned enjoying vibrant nightlife and social gatherings")
               @@ [priority |-> JStr("High")])>>),
        spendingHabits |-> JObj([
          cafeBudget |-> JStr("Moderate"),
          percentage |-> JNum(70),
          reason |-> JStr("Showed balanced approach to spending on food and beverages")]),
        goaExperience |-> JObj([
          score |-> JNum(78),
          level |-> JStr("Experienced"),
          reason |-> JStr("Shows good foundation of Goa knowledge but can explore more")])]),
      insights |-> JObj([
        whyUseful |-> JStr("This analysis provides a data-driven assessment of your travel personality and Goa preferences with specific percentages and personalized recommendations based on your actual audio responses."),
        benefits |-> JArr(<<
          JStr("Identified 88% adventure-seeking trait with specific examples from your responses"),
          JStr("Highlighted 80% beach preference with clear activity recommendations"),
          JStr("Revealed 75% party preference with social engagement opportunities"),
          JStr("Provided 78% Goa experience score with targeted improvement areas")>>),
        opportunities |-> JArr(<<
          JStr("Focus on beach activities and water sports (80% preference)"),
          JStr("Leverage social traits (82%) for group travel and networking"),
          JStr("Explore adventure activities (88%) for thrilling experiences"),
          JStr("Build on Goa knowledge (78%) for deeper cultural immersion")>>),
        recommendations |-> JArr(<<
          Recommendation("Immediate Actions", <<
            JStr("Book beachfront accommodation for maximum coastal experience"),
            JStr("Join group tours and social events for networking"),
            JStr("Try water sports and adventure activities")>>),
          Recommendation("Long-term Goals", <<
            JStr("Plan regular Goa visits based on your preferences"),
            JStr("Develop deeper connections with local culture"),
            JStr("Build a network of travel companions with similar interests")>>)>>)])])

(***************************************************************************)
(* Reply text.  A text is a sequence of tokens: the fence ``` , the tag    *)
(* json, white space, a JSON document (carrying the value JSON.parse       *)
(* yields for it), or other text that is no JSON.                          *)
(***************************************************************************)
Tok(k) == [k |-> k, v |-> JNull]

Fence == Tok("fence")

TagJson == Tok("json")

Ws == Tok("ws")

Word == Tok("word")

Doc(v) == [k |-> "doc", v |-> v]

RECURSIVE trimStart(_)
\* Drops the leading white space: String.prototype.trim, and the \s* that
\* follows the opening fence in the two regular expressions.
trimStart(s) ==
    IF s # <<>> /\ Head(s).k = "ws" THEN trimStart(Tail(s)) ELSE s

RECURSIVE trimEnd(_)
trimEnd(s) ==
    IF s # <<>> /\ s[Len(s)].k = "ws"
    THEN trimEnd(SubSeq(s, 1, Len(s) - 1))
    ELSE s

trim(s) == trimEnd(trimStart(s))

\* cleanText.startsWith('```json') and cleanText.startsWith('```')
startsWithFenceJson(s) == Len(s) >= 2 /\ s[1].k = "fence" /\ s[2].k = "json"

startsWithFence(s) == Len(s) >= 1 /\ s[1].k = "fence"

\* .replace(/\s*```$/, ''): a closing fence at the very end goes, with the
\* white space before it; a text that does not end with a fence is kept.
stripClosingFence(s) ==
    IF s # <<>> /\ s[Len(s)].k = "fence"
    THEN trimEnd(SubSeq(s, 1, Len(s) - 1))
    ELSE s

\* Lines 225-230.
cleanText(analysisText) ==
    LET t == trim(analysisText)
    IN IF startsWithFenceJson(t)
       THEN stripClosingFence(trimStart(SubSeq(t, 3, Len(t))))
       ELSE IF startsWithFence(t)
            THEN stripClosingFence(trimStart(SubSeq(t, 2, Len(t))))
            ELSE t

\* JSON.parse: one JSON document, white space around it allowed; anything
\* else is a SyntaxError.
JSONparse(s) ==
    LET t == trim(s)
    IN IF Len(t) = 1 /\ t[1].k = "doc"
       THEN Return(t[1].v)
       ELSE Throw("SyntaxError")

\* Lines 222-316: the inner try/catch.
parseOrFallback(analysisText) ==
    LET p == JSONparse(cleanText(analysisText))
    IN IF p.thrown THEN Fallback ELSE p.v

\* The AI service's answer to generateContent: an error, or a reply text.
AiError == [ok |-> FALSE, text |-> <<>>]

AiText(s) == [ok |-> TRUE, text |-> s]

\* A plausible slip: the outer catch degrades to the fallback too.
analyzeAudioWithGeminiMasking(result) ==
    IF result.ok THEN Return(parseOrFallback(result.text)) ELSE Return(Fallback)

\* Lines 173-321, from the answer of generateContent on: the outer catch
\* rethrows every failure of the call as 'Failed to analyze audio with AI'.
analyzeAudioWithGemini(result) ==
    IF result.ok
    THEN Return(parseOrFallback(result.text))
    ELSE Throw("Failed to analyze audio with AI")

(***************************************************************************)
(* The reply texts the AI service may give.                                *)
(***************************************************************************)
FullSpendingHabits ==
    JObj([cafeBudget |-> JStr("Low"), percentage |-> JNum(30),
          reason |-> JStr("Rarely visits cafes")])

FullGoaExperience ==
    JObj([score |-> JNum(55), level |-> JStr("Beginner"),
          reason |-> JStr("First visit")])

FullInsights ==
    JObj([whyUseful |-> JStr("Shows what to plan"),
          benefits |-> JArr(<<JStr("Knows own budget")>>),
          opportunities |-> JArr(<<>>),
          recommendations |-> JArr(<<Recommendation("Immediate Actions", <<JStr("Book early")>>)>>)])

\* Every field of the schema present and truthy.
DocFull ==
    JObj([transcription |-> JStr("I like beaches"),
          analysis |-> JObj([
            overallScore |-> JNum(72),
            confidenceLevel |-> JStr("Medium"),
            travelPersonality |-> JArr(<<Trait("Beach Lover", 90, "Said so")>>),
            preferences |-> JArr(<<JObj(Preference("Beach vs Mountains", "Beach", 90, "Said so"))>>),
            spendingHabits |-> FullSpendingHabits,
            goaExperience |-> FullGoaExperience]),
          insights |-> FullInsights])

\* {"transcription":"hi"}
DocHi == JObj([transcription |-> JStr("hi")])

\* Every field present, some with a falsy value: 0, "" and (truthy) [].
DocFalsy ==
    JObj([transcription |-> JStr(""),
          analysis |-> JObj([
            overallScore |-> JNum(0),
            confidenceLevel |-> JStr(""),
            travelPersonality |-> JArr(<<>>),
            preferences |-> JArr(<<>>),
            spendingHabits |-> FullSpendingHabits,
            goaExperience |-> FullGoaExperience]),
          insights |-> FullInsights])

\* Nested objects present that lack some of their own sub-fields.
DocPartial ==
    JObj([transcription |-> JStr("hello"),
          analysis |-> JObj([
            overallScore |-> JNum(40),
            spendingHabits |-> JObj([cafeBudget |-> JStr("Low")]),
            goaExperience |-> JObj([score |-> JNum(10)])]),
          insights |-> JObj([whyUseful |-> JStr("Shows what to plan")])])

Replies ==
    { <<Word, Ws, Word>>,
      <<Fence, TagJson, Ws, Word, Ws, Fence>>,
      <<Fence, Ws, Word, Ws, Fence>>,
      <<Doc(DocFull)>>,
      <<Fence, TagJson, Ws, Doc(DocHi), Ws, Fence>>,
      <<Ws, Fence, Ws, Doc(DocFalsy), Ws, Fence, Ws>>,
      <<Ws, Doc(DocPartial), Ws>>,
      <<Doc(JNull)>> }

AiResults == {AiError} \cup {AiText(s) : s \in Replies}

\* Whether a reply text is valid JSON once its fences are stripped.
ValidJson(s) == ~JSONparse(cleanText(s)).thrown

(***************************************************************************)
(* State.                                                                  *)
(*                                                                         *)
(* db is the AudioAnalysis collection in order of createdAt; a record's    *)
(* position is its _id.  owner (the request that created the record) and   *)
(* writers (the requests that wrote to it after its creation) are history, *)
(* not fields of the stored document.                                      *)
(*                                                                         *)
(* req[r] is upload request r: its position pc (the await it is suspended  *)
(* in), its inputs (file, email), and the handler's locals.  aiCalls,      *)
(* reply, error and cleanup are history.                                   *)
(***************************************************************************)
NoResponse == [code |-> 0, success |-> FALSE, analysis |-> Undefined]

NewRequest ==
    [pc |-> "idle",
     file |-> FALSE,
     email |-> "",
     analysisRecord |-> 0,         \* _id of the record once it is persisted
     aiCalls |-> 0,                \* calls of generateContent issued
     reply |-> "none",             \* "error", "json" or "invalid"
     analysis |-> Undefined,       \* what analyzeAudioWithGemini returned
     processingTime |-> 0,
     error |-> "none",             \* the step that threw into the catch block
     lastRecord |-> 0,             \* _id of the record findOne returned, while its save is awaited
     cleanup |-> "none",           \* "marked": read and write succeeded; "skipped": nothing to mark; "failed": one threw
     res |-> NoResponse]

NewRecord(r, email) ==
    [owner |-> r,
     writers |-> {},
     email |-> email,
     status |-> "processing",
     analysis |-> Undefined,
     processingTime |-> Undefined]

NormIdle == [pc |-> "off", x |-> Undefined, once |-> Return(Undefined), twice |-> Return(Undefined)]

HealthIdle ==
    [pc |-> "idle",
     checks |-> [gemini |-> FALSE, database |-> FALSE],
     probed |-> {},
     outcome |-> [gemini |-> FALSE, database |-> FALSE],
     res |-> [code |-> 0, success |-> FALSE, checks |-> [gemini |-> FALSE, database |-> FALSE]]]

Init ==
    /\ req = [r \in Requests |-> NewRequest]
    /\ db = <<>>
    /\ health = HealthIdle
    /\ norm = NormIdle

(***************************************************************************)
(* analyzeAudio (lines 325-397) and analyzeAudioWithJSON (lines 445-517).  *)
(***************************************************************************)
\* res.status(400).json(...) of lines 331-334.
NoFileResponse == [code |-> 400, success |-> FALSE, analysis |-> Undefined]

\* res.status(500).json(...) of lines 391-395.
ErrorResponse == [code |-> 500, success |-> FALSE, analysis |-> Undefined]

\* A plausible slip: the raw result of the AI call is sent to the caller.
ResponseAnalysisRaw(analysis) == analysis

\* Line 370: the analysis of the response is normalized again from the
\* result of the AI call.
ResponseAnalysis(analysis) == createSafeAnalysis(analysis).v

\* res.json(...) of lines 365-375.
SuccessResponse(analysis) ==
    [code |-> 200, success |-> TRUE, analysis |-> ResponseAnalysis(analysis)]

\* Requests are named in their order of arrival.
Arrived(r) == IF r = 0 THEN TRUE ELSE req[r].pc # "idle"

\* req.body.email.  The first request's email is named "a@b.com".
EmailsOf(r) == IF r = 1 THEN {"a@b.com"} ELSE Emails

\* A plausible slip: no check of req.file.
analyzeAudioUnchecked(r) ==
    \E file \in BOOLEAN, email \in EmailsOf(r) :
        /\ req[r].pc = "idle"
        /\ Arrived(r - 1)
        /\ req' = [req EXCEPT ![r].file = file, ![r].email = email, ![r].pc = "save1"]
        /\ UNCHANGED <<db, health, norm>>

\* Lines 326-352: the request arrives.  Without a file it is answered 400
\* from inside the try block (a return, no throw).  With one, the record
\* is built with status 'processing' and its save is awaited.
analyzeAudio(r) ==
    \E file \in BOOLEAN, email \in EmailsOf(r) :
        /\ req[r].pc = "idle"
        /\ Arrived(r - 1)
        /\ IF ~file
           THEN req' = [req EXCEPT ![r].res = NoFileResponse, ![r].pc = "done"]
           ELSE req' = [req EXCEPT ![r].file = file, ![r].email = email,
                                   ![r].pc = "save1"]
        /\ UNCHANGED <<db, health, norm>>

\* A plausible slip: the AI call is issued whether or not the save threw.
SaveNewRecordUnawaited(r) ==
    \E ok \in BOOLEAN :
        /\ req[r].pc = "save1"
        /\ db' = IF ok THEN Append(db, NewRecord(r, req[r].email)) ELSE db
        /\ req' = [req EXCEPT ![r].analysisRecord = IF ok THEN Len(db) + 1 ELSE 0,
                              ![r].aiCalls = @ + 1,
                              ![r].pc = "ai"]
        /\ UNCHANGED <<health, norm>>

\* Lines 352-355: the first save ends.  When it succeeded the record is in
\* the collection and analyzeAudioWithGemini runs up to its await of
\* generateContent; when it threw, control is in the catch block, awaiting
\* findOne.
SaveNewRecord(r) ==
    \E ok \in BOOLEAN :
        /\ req[r].pc = "save1"
        /\ IF ok
           THEN /\ db' = Append(db, NewRecord(r, req[r].email))
                /\ req' = [req EXCEPT ![r].analysisRecord = Len(db) + 1,
                                      ![r].aiCalls = @ + 1,
                                      ![r].pc = "ai"]
           ELSE /\ db' = db
                /\ req' = [req EXCEPT ![r].error = "save1", ![r].pc = "find"]
        /\ UNCHANGED <<health, norm>>

\* Lines 209-220 and 355-362: generateContent ends.  A thrown call, or a
\* TypeError of createSafeAnalysis, leads into the catch block; otherwise
\* the record in memory gets analysis, status and processingTime and its
\* second save is awaited.
AiCallEnds(r) ==
    \E result \in AiResults, elapsed \in ElapsedTimes :
        /\ req[r].pc = "ai"
        /\ LET got == analyzeAudioWithGemini(result)
               kind == IF ~result.ok THEN "error"
                       ELSE IF ValidJson(result.text) THEN "json" ELSE "invalid"
           IN IF got.thrown
              THEN req' = [req EXCEPT ![r].reply = kind, ![r].error = "ai",
                                      ![r].pc = "find"]
              ELSE IF createSafeAnalysis(got.v).thrown
                   THEN req' = [req EXCEPT ![r].reply = kind,
                                           ![r].error = "normalize",
                                           ![r].pc = "find"]
                   ELSE req' = [req EXCEPT ![r].reply = kind,
                                           ![r].analysis = got.v,
                                           ![r].processingTime = elapsed,
                                           ![r].pc = "save2"]
        /\ UNCHANGED <<db, health, norm>>

\* Lines 359-375: the second save ends.  It writes the paths the handler
\* set (analysis, status, processingTime) to the request's own record;
\* then the 200 response is sent.  When it threw, control is in the catch
\* block, where the locals of the try block are out of scope.
SaveResult(r) ==
    \E ok \in BOOLEAN :
        /\ req[r].pc = "save2"
        /\ IF ok
           THEN /\ db' = [db EXCEPT
                            ![req[r].analysisRecord].analysis = createSafeAnalysis(req[r].analysis).v,
                            ![req[r].analysisRecord].status = "completed",
                            ![req[r].analysisRecord].processingTime = JNum(req[r].processingTime),
                            ![req[r].analysisRecord].writers = @ \cup {r}]
                /\ req' = [req EXCEPT ![r].res = SuccessResponse(req[r].analysis),
                                      ![r].pc = "done"]
           ELSE /\ db' = db
                /\ req' = [req EXCEPT ![r].analysis = Undefined,
                                      ![r].processingTime = 0,
                                      ![r].error = "save2", ![r].pc = "find"]
        /\ UNCHANGED <<health, norm>>

\* AudioAnalysis.findOne({'userData.email': email}).sort({createdAt: -1}):
\* the _id of the newest record of that email, 0 when there is none.
findOne(email) ==
    LET ids == {i \in 1..Len(db) : db[i].email = email}
    IN IF ids = {} THEN 0 ELSE CHOOSE i \in ids : \A j \in ids : j <= i

\* Lines 381-395: findOne ends.  A failed read, no record, or a record
\* whose status is not 'processing' ends the cleanup and the 500 response
\* is sent; otherwise the found record gets status 'failed' in memory and
\* its save is awaited.
FindLastRecord(r) ==
    \E ok \in BOOLEAN :
        /\ req[r].pc = "find"
        /\ LET lastRecord == findOne(req[r].email)
           IN IF ~ok
              THEN req' = [req EXCEPT ![r].cleanup = "failed",
                                      ![r].res = ErrorResponse, ![r].pc = "done"]
              ELSE IF lastRecord = 0
                   THEN req' = [req EXCEPT ![r].cleanup = "skipped",
                                           ![r].res = ErrorResponse, ![r].pc = "done"]
                   ELSE IF db[lastRecord].status # "processing"
                        THEN req' = [req EXCEPT ![r].cleanup = "skipped",
                                                ![r].res = ErrorResponse,
                                                ![r].pc = "done"]
                        ELSE req' = [req EXCEPT ![r].lastRecord = lastRecord,
                                                ![r].pc = "save3"]
        /\ UNCHANGED <<db, health, norm>>

\* Lines 384-395: the save of lastRecord ends.  It writes the one path the
\* catch block set (status); a failure is logged and swallowed.  Then the
\* 500 response is sent.
SaveFailed(r) ==
    \E ok \in BOOLEAN :
        /\ req[r].pc = "save3"
        /\ IF ok
           THEN /\ db' = [db EXCEPT ![req[r].lastRecord].status = "failed",
                                    ![req[r].lastRecord].writers = @ \cup {r}]
                /\ req' = [req EXCEPT ![r].cleanup = "marked",
                                      ![r].lastRecord = 0,
                                      ![r].res = ErrorResponse, ![r].pc = "done"]
           ELSE /\ db' = db
                /\ req' = [req EXCEPT ![r].cleanup = "failed",
                                      ![r].lastRecord = 0,
                                      ![r].res = ErrorResponse, ![r].pc = "done"]
        /\ UNCHANGED <<health, norm>>

(***************************************************************************)
(* healthCheck (lines 400-442).                                            *)
(***************************************************************************)
\* Lines 425-432.
HealthResponse(checks) ==
    LET allHealthy == \A k \in DOMAIN checks : checks[k] = TRUE
    IN [code |-> IF allHealthy THEN 200 ELSE 503,
        success |-> allHealthy,
        checks |-> checks]

\* Lines 401-411: the request arrives; both checks start false and the
\* AI probe is awaited.
healthCheck ==
    /\ health.pc = "idle"
    /\ health' = [health EXCEPT !.pc = "gemini"]
    /\ UNCHANGED <<req, db, norm>>

\* A plausible slip: a failed AI probe ends the health check.
GeminiProbeEndsShortCircuit ==
    \E ok \in BOOLEAN :
        /\ health.pc = "gemini"
        /\ IF ok
           THEN health' = [health EXCEPT !.checks.gemini = TRUE,
                                         !.outcome.gemini = ok,
                                         !.probed = @ \cup {"gemini"},
                                         !.pc = "database"]
           ELSE health' = [health EXCEPT !.outcome.gemini = ok,
                                         !.probed = @ \cup {"gemini"},
                                         !.res = HealthResponse(health.checks),
                                         !.pc = "done"]
        /\ UNCHANGED <<req, db, norm>>

\* Lines 409-419: the AI probe ends; its failure is logged and swallowed.
\* Then the storage probe is awaited.
GeminiProbeEnds ==
    \E ok \in BOOLEAN :
        /\ health.pc = "gemini"
        /\ health' = [health EXCEPT !.checks.gemini = IF ok THEN TRUE ELSE @,
                                    !.outcome.gemini = ok,
                                    !.probed = @ \cup {"gemini"},
                                    !.pc = "database"]
        /\ UNCHANGED <<req, db, norm>>

\* Lines 418-432: the storage probe (a read) ends; then the response is
\* sent.
DatabaseProbeEnds ==
    \E ok \in BOOLEAN :
        /\ health.pc = "database"
        /\ LET checks == [health.checks EXCEPT !.database = IF ok THEN TRUE ELSE @]
           IN health' = [health EXCEPT !.checks = checks,
                                       !.outcome.database = ok,
                                       !.probed = @ \cup {"database"},
                                       !.res = HealthResponse(checks),
                                       !.pc = "done"]
        /\ UNCHANGED <<req, db, norm>>

(***************************************************************************)
(* The normalization pass on its own: createSafeAnalysis applied once and  *)
(* twice to a value JSON.parse can return.                                 *)
(***************************************************************************)
Absent == [t |-> "absent"]

Opt(S) == S \cup {Absent}

\* The object with the keys of f that are not Absent.
Obj(f) == JObj([k \in {j \in DOMAIN f : f[j] # Absent} |-> f[k]])

AnalysisInputs ==
    {JNull, JNum(7), JStr("n/a")} \cup
    {Obj(f) : f \in
       [overallScore : Opt({JNum(0), JNum(72)}),
        confidenceLevel : Opt({JStr(""), JStr("High")}),
        travelPersonality : Opt({JArr(<<>>)}),
        preferences : Opt({JNull, JArr(<<JObj(Preference("Beach vs Mountains", "Beach", 90, "Said so"))>>)}),
        spendingHabits : Opt({JNull, JObj([cafeBudget |-> JStr("Low")]), FullSpendingHabits}),
        goaExperience : Opt({JObj([score |-> JNum(10)]), FullGoaExperience})]}

NormInputs ==
    {JNull, JNum(5), JStr("text"), JArr(<<>>), Fallback} \cup
    {Obj(f) : f \in
       [transcription : Opt({JStr(""), JStr("hi")}),
        analysis : Opt(AnalysisInputs),
        insights : Opt({JNull, JStr("none"),
                        JObj([whyUseful |-> JStr("Shows what to plan")]),
                        FullInsights})]}

InitNormalize ==
    /\ req = [r \in Requests |-> NewRequest]
    /\ db = <<>>
    /\ health = HealthIdle
    /\ norm \in {[NormIdle EXCEPT !.pc = "input", !.x = x] : x \in NormInputs}

\* createSafeAnalysis(x)
NormalizeOnce ==
    /\ norm.pc = "input"
    /\ norm' = [norm EXCEPT !.once = createSafeAnalysis(norm.x), !.pc = "once"]
    /\ UNCHANGED <<req, db, health>>

\* createSafeAnalysis(createSafeAnalysis(x)): a throw of the inner call is
\* the throw of the whole expression.
NormalizeTwice ==
    /\ norm.pc = "once"
    /\ norm' = [norm EXCEPT !.twice = IF norm.once.thrown
                                      THEN norm.once
                                      ELSE createSafeAnalysis(norm.once.v),
                            !.pc = "twice"]
    /\ UNCHANGED <<req, db, health>>

(***************************************************************************)
(* Specifications.                                                         *)
(***************************************************************************)
\* The upload requests, in every interleaving.
Next ==
    \/ \E r \in Requests : analyzeAudio(r)
    \/ \E r \in Requests : SaveNewRecord(r)
    \/ \E r \in Requests : AiCallEnds(r)
    \/ \E r \in Requests : SaveResult(r)
    \/ \E r \in Requests : FindLastRecord(r)
    \/ \E r \in Requests : SaveFailed(r)

Spec == Init /\ [][Next]_vars

\* A health check, in every interleaving with an upload request.
NextHealth ==
    \/ healthCheck
    \/ GeminiProbeEnds
    \/ DatabaseProbeEnds
    \/ analyzeAudio(1)
    \/ SaveNewRecord(1)
    \/ AiCallEnds(1)
    \/ SaveResult(1)
    \/ FindLastRecord(1)
    \/ SaveFailed(1)

SpecHealth == Init /\ [][NextHealth]_vars

\* The normalization pass on every input.
NextNormalize == NormalizeOnce \/ NormalizeTwice

SpecNormalize == InitNormalize /\ [][NextNormalize]_vars

(***************************************************************************)
(* Properties.                                                             *)
(***************************************************************************)
\* The record request r created is in the collection.
Persisted(r) ==
    /\ req[r].analysisRecord \in 1..Len(db)
    /\ db[req[r].analysisRecord].owner = r

\* The record request r created (only where Persisted(r)).
OwnRecord(r) == db[req[r].analysisRecord]

\* C1: the AI call of a request is issued only once the request's record
\* is persisted, with status 'processing' at the time of the call; a
\* request whose first save failed never issues an AI call.
C1_RecordSavedBeforeAiCall ==
    /\ [](\A r \in Requests :
            /\ req[r].aiCalls > 0 => Persisted(r)
            /\ req[r].error = "save1" => req[r].aiCalls = 0 /\ ~Persisted(r))
    /\ [][\A r \in Requests :
            req'[r].aiCalls > req[r].aiCalls =>
                /\ ~Persisted(r)
                /\ Persisted(r)'
                /\ OwnRecord(r)'.status = "processing"]_vars

\* One request awaits its AI call with its record persisted, another one's
\* first save failed and it ended without an AI call.
C1_Witness ==
    \E r1, r2 \in Requests :
        /\ req[r1].pc = "ai" /\ req[r1].aiCalls = 1 /\ Persisted(r1)
        /\ req[r2].pc = "done" /\ req[r2].error = "save1" /\ req[r2].aiCalls = 0

\* C2: a request that failed after it created its record (its AI call or
\* its second save failed) and whose cleanup read and wrote successfully
\* leaves its own record with status 'failed'.
C2_OwnRecordMarkedFailed ==
    \A r \in Requests :
        (/\ req[r].pc = "done"
         /\ req[r].error \in {"ai", "save2"}
         /\ req[r].cleanup = "marked")
        => Persisted(r) /\ OwnRecord(r).status = "failed"

\* C3: no record is ever written by a request other than its creator.
C3_OnlyCreatorWrites ==
    \A i \in 1..Len(db) : db[i].writers \subseteq {db[i].owner}

HasKeys(v, keys) == v.t = "obj" /\ keys \subseteq DOMAIN v.o

\* Every sub-field of the analysis schema is present in v.
Complete(v) ==
    /\ HasKeys(v, {"transcription", "analysis", "insights"})
    /\ HasKeys(v.o.analysis, {"overallScore", "confidenceLevel", "travelPersonality",
                              "preferences", "spendingHabits", "goaExperience"})
    /\ HasKeys(v.o.analysis.o.spendingHabits, {"cafeBudget", "percentage", "reason"})
    /\ HasKeys(v.o.analysis.o.goaExperience, {"score", "level", "reason"})
    /\ HasKeys(v.o.insights, {"whyUseful", "benefits", "opportunities", "recommendations"})

\* C4: every persisted record whose analysis is set has an analysis with
\* all sub-fields present.
C4_PersistedAnalysisComplete ==
    \A i \in 1..Len(db) :
        db[i].analysis # Undefined => Complete(db[i].analysis)

\* C5: a request whose AI reply was not valid JSON and that met no failure
\* of its own ends with a success response, the fallback as the analysis
\* returned and persisted, and its record with status 'completed'.
C5_InvalidReplyCompletes ==
    \A r \in Requests :
        (req[r].pc = "done" /\ req[r].reply = "invalid" /\ req[r].error = "none")
        => /\ req[r].res.code = 200
           /\ req[r].res.analysis = Fallback
           /\ Persisted(r)
           /\ OwnRecord(r).analysis = Fallback
           /\ OwnRecord(r).status = "completed"

\* The nine entries the normalization pass fills, each with its default.
TopDefaults ==
    [transcription |-> DefaultTranscription,
     insights |-> DefaultInsights]

NestedDefaults ==
    [overallScore |-> JNum(0),
     confidenceLevel |-> JStr("Unknown"),
     travelPersonality |-> JArr(<<>>),
     preferences |-> JArr(<<>>),
     spendingHabits |-> DefaultSpendingHabits,
     goaExperience |-> DefaultGoaExperience]

\* The value of entry k in a reply x, Undefined when it is missing.
TopEntry(x, k) == Get(x, k)

NestedEntry(x, k) == OptGet(Get(x, "analysis"), k)

\* out is a normalized object: exactly the three top-level keys, and
\* exactly the six keys under analysis.
NormalShape(out) ==
    /\ out.t = "obj"
    /\ DOMAIN out.o = {"transcription", "analysis", "insights"}
    /\ out.o.analysis.t = "obj"
    /\ DOMAIN out.o.analysis.o = DOMAIN NestedDefaults

\* Every entry of x that is present and truthy is in out as it is; every
\* entry that is missing or falsy has its default in out.
FilledWhereFalsy(x, out) ==
    /\ NormalShape(out)
    /\ \A k \in DOMAIN TopDefaults :
          out.o[k] = IF Truthy(TopEntry(x, k)) THEN TopEntry(x, k) ELSE TopDefaults[k]
    /\ \A k \in DOMAIN NestedDefaults :
          out.o.analysis.o[k] = IF Truthy(NestedEntry(x, k))
                                THEN NestedEntry(x, k)
                                ELSE NestedDefaults[k]

\* Every entry of x that is present is in out as it is, whatever its value;
\* every entry that is missing has its default in out.
FilledWhereMissing(x, out) ==
    /\ NormalShape(out)
    /\ \A k \in DOMAIN TopDefaults :
          out.o[k] = IF TopEntry(x, k) # Undefined THEN TopEntry(x, k) ELSE TopDefaults[k]
    /\ \A k \in DOMAIN NestedDefaults :
          out.o.analysis.o[k] = IF NestedEntry(x, k) # Undefined
                                THEN NestedEntry(x, k)
                                ELSE NestedDefaults[k]

\* A reply that matches the schema, with fields possibly missing: an
\* object whose analysis, spendingHabits, goaExperience and insights, where
\* present, are objects, the last three with all of their sub-fields.
MatchesSchema(x) ==
    /\ x.t = "obj"
    /\ Get(x, "analysis") # Undefined => Get(x, "analysis").t = "obj"
    /\ NestedEntry(x, "spendingHabits") # Undefined =>
          HasKeys(NestedEntry(x, "spendingHabits"), {"cafeBudget", "percentage", "reason"})
    /\ NestedEntry(x, "goaExperience") # Undefined =>
          HasKeys(NestedEntry(x, "goaExperience"), {"score", "level", "reason"})
    /\ Get(x, "insights") # Undefined =>
          HasKeys(Get(x, "insights"),
                  {"whyUseful", "benefits", "opportunities", "recommendations"})

\* The request got a reply that is valid JSON and answered 200.
SucceededOnJson(r) ==
    req[r].pc = "done" /\ req[r].res.code = 200 /\ req[r].reply = "json"

C7_NormalizationIdempotent ==
    norm.pc = "twice" => norm.twice = norm.once

\* Both passes ran on an object with entries missing or falsy, and the
\* first pass changed it.
C7_Witness ==
    /\ norm.pc = "twice"
    /\ norm.x.t = "obj"
    /\ ~norm.once.thrown
    /\ norm.once.v # norm.x
    /\ Get(norm.x, "transcription") = JStr("")
    /\ Get(norm.x, "insights") = FullInsights
    /\ NestedEntry(norm.x, "spendingHabits") = JObj([cafeBudget |-> JStr("Low")])

\* C8: a request whose AI call failed has issued exactly one call, holds no
\* analysis (no fallback is substituted), is in its catch block or has
\* answered with the 500 envelope, and no analysis is written to its
\* record.
C8_AiFailureNotMasked ==
    \A r \in Requests :
        req[r].reply = "error" =>
            /\ req[r].aiCalls = 1
            /\ req[r].analysis = Undefined
            /\ req[r].error = "ai"
            /\ req[r].pc \in {"find", "save3", "done"}
            /\ req[r].res = IF req[r].pc = "done" THEN ErrorResponse ELSE NoResponse
            /\ Persisted(r)
            /\ OwnRecord(r).analysis = Undefined
            /\ OwnRecord(r).processingTime = Undefined
            /\ OwnRecord(r).status # "completed"

\* A request whose AI call failed has answered 500.
C8_Witness ==
    \E r \in Requests :
        /\ req[r].reply = "error"
        /\ req[r].pc = "done"
        /\ req[r].res.code = 500
        /\ req[r].aiCalls = 1

\* Request r has arrived without a file.
NoFile(r) == req[r].pc # "idle" /\ ~req[r].file

\* C9: a request without a file is answered 400 at once and has done
\* nothing else: it created and wrote no record, issued no AI call, and its
\* catch block with the cleanup did not run.
C9_NoFileRejected ==
    \A r \in Requests :
        NoFile(r) =>
            /\ req[r].pc = "done"
            /\ req[r].res = NoFileResponse
            /\ req[r].analysisRecord = 0
            /\ req[r].aiCalls = 0
            /\ req[r].error = "none"
            /\ req[r].cleanup = "none"
            /\ req[r].lastRecord = 0
            /\ \A i \in 1..Len(db) : db[i].owner # r /\ r \notin db[i].writers

\* A request without a file was answered 400 while another request's record
\* is in the collection, still 'processing'.
C9_Witness ==
    \E r \in Requests :
        /\ NoFile(r)
        /\ req[r].res.code = 400
        /\ \E i \in 1..Len(db) : db[i].status = "processing"

\* C10: the health check has made both probes when it answers, whatever
\* the AI probe's outcome; the booleans of its answer are the outcomes of
\* the two probes; the status is 200 when both are true and 503 otherwise;
\* and no step of the health check changes the collection.
C10_HealthCheck ==
    /\ [](health.pc = "done" =>
            /\ health.probed = {"gemini", "database"}
            /\ health.res.checks = health.outcome
            /\ health.res.code =
                 IF health.outcome.gemini /\ health.outcome.database THEN 200 ELSE 503
            /\ health.res.success = (health.res.code = 200))
    /\ [][health' # health => db' = db]_vars

\* The health check answered 503 after a failed AI probe and a successful
\* storage probe, with a record in the collection.
C10_Witness ==
    /\ health.pc = "done"
    /\ ~health.outcome.gemini
    /\ health.outcome.database
    /\ health.res.code = 503
    /\ health.res.checks = [gemini |-> FALSE, database |-> TRUE]
    /\ Len(db) = 1

\* C11: the status of a record only goes from 'processing' to 'completed'
\* or from 'processing' to 'failed' (a record that is 'completed' or
\* 'failed' keeps its status for ever), and a record with status 'failed'
\* carries no analysis and no processingTime.
C11_StatusLifecycle ==
    /\ [](\A i \in 1..Len(db) :
            db[i].status = "failed" =>
                db[i].analysis = Undefined /\ db[i].processingTime = Undefined)
    /\ [][\A i \in 1..Len(db) :
            \/ db'[i].status = db[i].status
            \/ db[i].status = "processing" /\ db'[i].status \in {"completed", "failed"}]_vars

====
